---- MODULE Spec2Model ----
(***************************************************************************)
(* A model of the bulk-loaded B+-tree of src/src/BTree.hpp: the node heap  *)
(* built by BTree::Bulkload, the cursor (the_iterator) and the lookups     *)
(* find, find_range and equal_range.                                       *)
(*                                                                         *)
(* Nodes live in `heap`, a sequence indexed by node id (a Node* is an id,  *)
(* nullptr is NULL).  A pointer into a leaf's `children` array is the      *)
(* 0-based offset into that array, as in `children + mid`.  The payload of *)
(* the i-th input pair is i: the code never inspects a payload, so tagging *)
(* it with its input position tells every two entries apart.               *)
(***************************************************************************)
EXTENDS Integers, Sequences, FiniteSets, TLC

\* ---------------------------------------------------------------- bounds
MaxN == 5          \* longest input sequence
MaxKey == 3        \* keys of the input are 1..MaxKey
MaxLeafCap == 3    \* largest NUM_KEYS_PER_LEAF tried
MaxInnerCap == 3   \* largest NUM_KEYS_PER_INODE tried
MaxPasses == 4     \* Inner-building passes followed before the model stops
MaxOver == 2       \* ++ operations followed after a walk has taken size() steps
MaxNodeSize == 72  \* largest NodeSizeInBytes tried
MaxNodes == 30     \* nodes allocated before the model stops allocating
SizeBits == 16     \* bits of std::size_t in the model (64 in the build)

\* ------------------------------------------------------------- constants
NULL == 0                  \* nullptr
KeyMin == (-2147483647) - 1  \* std::numeric_limits<key_type>::min() for int keys
NotFound == -1             \* the leaf binary search fell through

Keys == 1..MaxKey
QueryKeys == 0..(MaxKey + 1)

VARIABLES
    NUM_KEYS_PER_LEAF,     \* leaf capacity of the tree type
    NUM_KEYS_PER_INODE,    \* inner capacity of the tree type
    input,                 \* the range [begin, end) handed to Bulkload
    heap,                  \* every node allocated with new, by id
    pc,                    \* position inside Bulkload, "ready" once it returned
    pair_it,               \* Bulkload: number of input pairs consumed
    child,                 \* Bulkload: the Leaf being filled
    parent,                \* Bulkload: the INode being filled
    maxi,                  \* Bulkload: running maximum key of the node being filled
    children,              \* Bulkload: deque of (max key, node) of the current level
    parents,               \* Bulkload: deque of (max key, node) of the level above
    size,                  \* Bulkload: local pair counter
    passes,                \* number of completed passes of the loop of line 475
    root, size_, height_,  \* the fields of the returned BTree
    res,                   \* the last query made on the returned tree and its result
    cfg,                   \* the template arguments of the tree type and how far it is instantiated
    released               \* the nodes handed to delete so far, in order

vars == <<NUM_KEYS_PER_LEAF, NUM_KEYS_PER_INODE, input, heap, pc, pair_it, child,
          parent, maxi, children, parents, size, passes, root, size_, height_, res, cfg,
          released>>

build == <<pair_it, child, parent, maxi, children, parents, size, passes>>
tree == <<root, size_, height_>>
config == <<NUM_KEYS_PER_LEAF, NUM_KEYS_PER_INODE, input, cfg>>

\* ------------------------------------------------------------ the inputs
IsSorted(ks) == \A i \in 1..(Len(ks) - 1) : ks[i] <= ks[i + 1]

KeySeqs == UNION {[1..n -> Keys] : n \in 0..MaxN}

SortedInputs == {[i \in 1..Len(ks) |-> <<ks[i], i>>] : ks \in {s \in KeySeqs : IsSorted(s)}}

\* a max that returns the smaller argument
Max_Smaller(a, b) == IF a >= b THEN b ELSE a

Max(a, b) == IF a >= b THEN a ELSE b

RECURSIVE Pow2(_)
Pow2(e) == IF e = 0 THEN 1 ELSE 2 * Pow2(e - 1)

\* ------------------------------------------------------------- the nodes
NewLeafNode == [kind |-> "Leaf", children |-> <<>>, next_leaf |-> NULL]
NewINodeNode == [kind |-> "INode", children |-> <<>>, next_leaf |-> NULL]

get_size(n) == Len(heap[n].children)

\* an is_full that lets one more entry in
is_full_OffByOne(n) ==
    IF heap[n].kind = "Leaf" THEN get_size(n) > NUM_KEYS_PER_LEAF
                             ELSE get_size(n) > NUM_KEYS_PER_INODE

is_full(n) ==
    IF heap[n].kind = "Leaf" THEN get_size(n) >= NUM_KEYS_PER_LEAF
                             ELSE get_size(n) >= NUM_KEYS_PER_INODE

get_next_leaf(n) == heap[n].next_leaf

get_start_iterator(n) == 0

get_last_iterator(n) == get_size(n)

RECURSIVE get_first_leaf(_)
get_first_leaf(n) ==
    IF heap[n].kind = "Leaf" THEN n ELSE get_first_leaf(heap[n].children[1][2])

RECURSIVE get_last_leaf(_)
get_last_leaf(n) ==
    IF heap[n].kind = "Leaf" THEN n ELSE get_last_leaf(heap[n].children[get_size(n)][2])

\* a calculate_height that counts the root INode only
Node_calculate_height_Shallow(n) == IF heap[n].kind = "Leaf" THEN 0 ELSE 1

RECURSIVE Node_calculate_height(_)
Node_calculate_height(n) ==
    IF heap[n].kind = "Leaf" THEN 0
    ELSE 1 + Node_calculate_height(heap[n].children[get_size(n)][2])

\* a calculate_height that counts the leaf level as well
calculate_height_CountLevels(r) == IF r = NULL THEN 0 ELSE 1 + Node_calculate_height(r)

calculate_height(r) == IF r = NULL THEN 0 ELSE Node_calculate_height(r)

\* ----------------------------------------------------------- the cursor
\* the_iterator(): all three pointers are nullptr
NullIt == [leaf |-> NULL, cur |-> 0, last |-> 0]

the_iterator(leaf, cur, last) == [leaf |-> leaf, cur |-> cur, last |-> last]

\* the record of a query: its operation, its arguments, the cursors it returned
Query(op, k1, k2, b, e, steps) ==
    [op |-> op, k1 |-> k1, k2 |-> k2, b |-> b, e |-> e, steps |-> steps]

NoQuery == Query("none", 0, 0, NullIt, NullIt, 0)

\* ------------------------------------------------------ the tree type
\* a type of the build (LP64): its size and its alignment in bytes
Type(sz, al) == [size |-> sz, align |-> al]

T_int == Type(4, 4)
T_long == Type(8, 8)
T_pointer == Type(8, 8)
T_key32 == Type(32, 8)      \* a key struct of four longs
T_value16 == Type(16, 8)    \* a value struct of two longs

KeyTypes == {T_int, T_long, T_key32}
ValueTypes == {T_int, T_value16}

RoundUp(n, al) == ((n + al - 1) \div al) * al

\* sizeof(ref_pair<First, Second>): it wraps one std::pair<First, Second> (line 39)
sizeof_ref_pair(first, second) ==
    RoundUp(RoundUp(first.size, second.align) + second.size, Max(first.align, second.align))

\* a - b in std::size_t
SizeSub(a, b) == (a - b + Pow2(SizeBits)) % Pow2(SizeBits)

\* compute_num_keys_per_leaf (line 72-76)
compute_num_keys_per_leaf(c) ==
    SizeSub(c.NodeSizeInBytes, T_pointer.size + T_int.size + T_pointer.size)
        \div sizeof_ref_pair(c.Key, c.Value)

\* compute_num_keys_per_inode (line 79-83)
compute_num_keys_per_inode(c) ==
    SizeSub(c.NodeSizeInBytes, T_pointer.size) \div sizeof_ref_pair(c.Key, T_pointer)

\* alignas(NODE_ALIGNMENT_IN_BYTES) is accepted for a power of two
ValidAlignment(a) == \E e \in 0..SizeBits : a = Pow2(e)

\* an array member of n elements of e bytes is refused when it exceeds half the address space
ArrayTooLarge(n, e) == n * e >= Pow2(SizeBits - 1)

\* sizeof(Leaf): the vptr of Node, children[n], int size, Node *next_leaf (line 117-122)
sizeof_Leaf(c, n) ==
    RoundUp(RoundUp(RoundUp(T_pointer.size + n * sizeof_ref_pair(c.Key, c.Value), T_int.align)
                      + T_int.size, T_pointer.align) + T_pointer.size,
            Max(T_pointer.align, c.NodeAlignmentInBytes))

\* sizeof(INode): the vptr of Node, children[n], int size (line 207-211)
sizeof_INode(c, n) ==
    RoundUp(RoundUp(T_pointer.size + n * sizeof_ref_pair(c.Key, T_pointer), T_int.align)
              + T_int.size,
            Max(T_pointer.align, c.NodeAlignmentInBytes))

\* the template arguments tried; NodeAlignmentInBytes defaults to NodeSizeInBytes (line 57)
Configurations ==
    UNION {{[NodeSizeInBytes |-> sz, NodeAlignmentInBytes |-> al, Key |-> k, Value |-> v,
             stage |-> "declared"] : al \in {sz, T_pointer.align}, k \in KeyTypes, v \in ValueTypes}
           : sz \in 1..MaxNodeSize}

\* the tree type of the runs that load and query a tree: its capacities are drawn directly
NoConfig ==
    [NodeSizeInBytes |-> 0, NodeAlignmentInBytes |-> 0, Key |-> T_int, Value |-> T_int,
     stage |-> "given"]

Init ==
    /\ cfg = NoConfig
    /\ NUM_KEYS_PER_LEAF \in 0..MaxLeafCap
    /\ NUM_KEYS_PER_INODE \in 0..MaxInnerCap
    /\ input \in SortedInputs
    /\ heap = <<>>
    /\ pc = "entry"
    /\ pair_it = 0
    /\ child = NULL
    /\ parent = NULL
    /\ maxi = KeyMin
    /\ children = <<>>
    /\ parents = <<>>
    /\ size = 0
    /\ passes = 0
    /\ root = NULL
    /\ size_ = 0
    /\ height_ = 0
    /\ res = NoQuery
    /\ released = <<>>

\* ------------------------------------------------------- BTree::Bulkload
\* Leaf::append_child and INode::append_child: children[size] = entry; ++size
append_child(n, first, second) ==
    [heap EXCEPT ![n].children = Append(@, <<first, second>>)]

\* Leaf::set_next_leaf applied to heap h
set_next_leaf(h, n, next) == [h EXCEPT ![n].next_leaf = next]

\* line 444-445: the empty range gives BTree(nullptr, 0, 0)
ReturnEmpty ==
    /\ pc = "entry"
    /\ input = <<>>
    /\ root' = NULL
    /\ size_' = 0
    /\ height_' = 0
    /\ pc' = "ready"
    /\ UNCHANGED <<config, released, heap, build, res>>

\* line 447-450: the locals of a non-empty load
Start ==
    /\ pc = "entry"
    /\ input # <<>>
    /\ children' = <<>>
    /\ size' = 0
    /\ pair_it' = 0
    /\ pc' = "leaf_loop"
    /\ UNCHANGED <<config, released, heap, child, parent, maxi, parents, passes, tree, res>>

\* line 451-454: another pair is left, so a fresh Leaf is allocated
NewLeaf ==
    /\ pc = "leaf_loop"
    /\ pair_it # Len(input)
    /\ Len(heap) < MaxNodes
    /\ heap' = Append(heap, NewLeafNode)
    /\ child' = Len(heap) + 1
    /\ maxi' = KeyMin
    /\ pc' = "leaf_fill"
    /\ UNCHANGED <<config, released, pair_it, parent, children, parents, size, passes, tree, res>>

\* an AppendPair that forgets size++
AppendPair_NoCount ==
    /\ pc = "leaf_fill"
    /\ pair_it # Len(input)
    /\ ~is_full(child)
    /\ heap' = append_child(child, input[pair_it + 1][1], input[pair_it + 1][2])
    /\ maxi' = Max(maxi, input[pair_it + 1][1])
    /\ pair_it' = pair_it + 1
    /\ UNCHANGED <<config, released, pc, child, parent, children, parents, size, passes, tree, res>>

\* line 455-462: one iteration of the loop that fills the Leaf
AppendPair ==
    /\ pc = "leaf_fill"
    /\ pair_it # Len(input)
    /\ ~is_full(child)
    /\ heap' = append_child(child, input[pair_it + 1][1], input[pair_it + 1][2])
    /\ size' = size + 1
    /\ maxi' = Max(maxi, input[pair_it + 1][1])
    /\ pair_it' = pair_it + 1
    /\ UNCHANGED <<config, released, pc, child, parent, children, parents, passes, tree, res>>

\* a PushLeaf that links the first leaf of the level to every new leaf
PushLeaf_LinkFirst ==
    /\ pc = "leaf_fill"
    /\ ~(pair_it # Len(input) /\ ~is_full(child))
    /\ heap' = IF Len(children) > 0
                THEN set_next_leaf(heap, children[1][2], child)
                ELSE heap
    /\ children' = Append(children, <<maxi, child>>)
    /\ pc' = "leaf_loop"
    /\ UNCHANGED <<config, released, pair_it, child, parent, maxi, parents, size, passes, tree, res>>

\* line 464-469: the Leaf is complete; chain it behind its predecessor and record it
PushLeaf ==
    /\ pc = "leaf_fill"
    /\ ~(pair_it # Len(input) /\ ~is_full(child))
    /\ heap' = IF Len(children) > 0
                THEN set_next_leaf(heap, children[Len(children)][2], child)
                ELSE heap
    /\ children' = Append(children, <<maxi, child>>)
    /\ pc' = "leaf_loop"
    /\ UNCHANGED <<config, released, pair_it, child, parent, maxi, parents, size, passes, tree, res>>

\* line 451: the input is exhausted, the leaf level is complete
LeavesDone ==
    /\ pc = "leaf_loop"
    /\ pair_it = Len(input)
    /\ pc' = "level_loop"
    /\ UNCHANGED <<config, released, heap, build, tree, res>>

\* line 475-477: the level has more than one node, so a level is built above it
BeginPass ==
    /\ pc = "level_loop"
    /\ Len(children) > 1
    /\ passes < MaxPasses
    /\ parents' = <<>>
    /\ pc' = "inner_loop"
    /\ UNCHANGED <<config, released, heap, pair_it, child, parent, maxi, children, size, passes, tree, res>>

\* line 478-481: children are left on the level, so a fresh INode is allocated
NewINode ==
    /\ pc = "inner_loop"
    /\ Len(children) > 0
    /\ Len(heap) < MaxNodes
    /\ heap' = Append(heap, NewINodeNode)
    /\ parent' = Len(heap) + 1
    /\ maxi' = KeyMin
    /\ pc' = "inner_fill"
    /\ UNCHANGED <<config, released, pair_it, child, children, parents, size, passes, tree, res>>

\* line 482-488: one iteration of the loop that fills the INode
AppendChild ==
    /\ pc = "inner_fill"
    /\ Len(children) > 0
    /\ ~is_full(parent)
    /\ heap' = append_child(parent, Head(children)[1], Head(children)[2])
    /\ maxi' = Max(maxi, Head(children)[1])
    /\ children' = Tail(children)
    /\ UNCHANGED <<config, released, pc, pair_it, child, parent, parents, size, passes, tree, res>>

\* line 489: the INode is complete and recorded with its maximum key
PushParent ==
    /\ pc = "inner_fill"
    /\ ~(Len(children) > 0 /\ ~is_full(parent))
    /\ parents' = Append(parents, <<maxi, parent>>)
    /\ pc' = "inner_loop"
    /\ UNCHANGED <<config, released, heap, pair_it, child, parent, maxi, children, size, passes, tree, res>>

\* line 478, 491: the level is used up; the level above becomes the current one
EndPass ==
    /\ pc = "inner_loop"
    /\ Len(children) = 0
    /\ children' = parents
    /\ parents' = <<>>
    /\ passes' = passes + 1
    /\ pc' = "level_loop"
    /\ UNCHANGED <<config, released, heap, pair_it, child, parent, maxi, size, tree, res>>

\* line 475, 495-497: one node is left; it is the root of the returned tree
ReturnTree ==
    /\ pc = "level_loop"
    /\ ~(Len(children) > 1)
    /\ root' = Head(children)[2]
    /\ height_' = calculate_height(Head(children)[2])
    /\ size_' = size
    /\ pc' = "ready"
    /\ UNCHANGED <<config, released, heap, build, res>>

\* ------------------------------------------------- the_iterator, begin, end
\* operator*: the pair under current_element
Deref(it) == heap[it.leaf].children[it.cur + 1]

\* line 341: `current_element++` is defined up to one past the end of the
\* children array; beyond that the pointer arithmetic is undefined.
PastArray(it) == it.cur + 1 > NUM_KEYS_PER_LEAF

\* the offsets an undefined increment may leave in current_element
AnyOffset == 0..(NUM_KEYS_PER_LEAF + 2)

\* operator++ (line 339-353), c being the incremented current_element
IterInc(it, c) ==
    IF c = it.last
    THEN IF get_next_leaf(it.leaf) = NULL
         THEN [it EXCEPT !.cur = c]
         ELSE the_iterator(get_next_leaf(it.leaf),
                           get_start_iterator(get_next_leaf(it.leaf)),
                           get_last_iterator(get_next_leaf(it.leaf)))
    ELSE [it EXCEPT !.cur = c]

\* ++it on a cursor that stands on an entry
IterNext(it) == IterInc(it, it.cur + 1)

\* a begin that descends along the last children instead of the first
begin_AtLastLeaf ==
    IF root = NULL THEN NullIt
    ELSE the_iterator(get_last_leaf(root),
                      get_start_iterator(get_last_leaf(root)),
                      get_last_iterator(get_last_leaf(root)))

\* BTree::begin (line 519-528)
begin ==
    IF root = NULL THEN NullIt
    ELSE the_iterator(get_first_leaf(root),
                      get_start_iterator(get_first_leaf(root)),
                      get_last_iterator(get_first_leaf(root)))

\* BTree::end (line 530-539)
end ==
    IF root = NULL THEN NullIt
    ELSE the_iterator(get_last_leaf(root),
                      get_last_iterator(get_last_leaf(root)),
                      get_last_iterator(get_last_leaf(root)))

\* ------------------------------------------------------------------ find
\* an INode::find loop that compares with > instead of >=
RECURSIVE INodeSearch_Strict(_, _, _, _, _)
INodeSearch_Strict(n, key, left, right, found) ==
    IF left <= right
    THEN LET mid == left + ((right - left) \div 2)
         IN  IF heap[n].children[mid + 1][1] > key
             THEN INodeSearch_Strict(n, key, left, mid - 1, heap[n].children[mid + 1][2])
             ELSE INodeSearch_Strict(n, key, mid + 1, right, found)
    ELSE found

\* the loop of INode::find (line 274-286): the child of the leftmost separator >= key
RECURSIVE INodeSearch(_, _, _, _, _)
INodeSearch(n, key, left, right, found) ==
    IF left <= right
    THEN LET mid == left + ((right - left) \div 2)
         IN  IF heap[n].children[mid + 1][1] >= key
             THEN INodeSearch(n, key, left, mid - 1, heap[n].children[mid + 1][2])
             ELSE INodeSearch(n, key, mid + 1, right, found)
    ELSE found

\* Node::find: INode::find (line 267-292) descends, Leaf::find (line 199-202) ends
RECURSIVE Node_find(_, _)
Node_find(n, key) ==
    IF heap[n].kind = "Leaf" THEN n
    ELSE LET c == INodeSearch(n, key, 0, get_size(n) - 1, NULL)
         IN  Node_find(IF c = NULL THEN heap[n].children[get_size(n)][2] ELSE c, key)

\* the loop of BTree::find (line 612-627): the offset of the entry it returns
RECURSIVE LeafSearch(_, _, _, _)
LeafSearch(leaf, key, left, right) ==
    IF left <= right
    THEN LET mid == left + ((right - left) \div 2)
             leaf_key == heap[leaf].children[mid + 1][1]
         IN  IF leaf_key = key THEN mid
             ELSE IF leaf_key < key THEN LeafSearch(leaf, key, mid + 1, right)
             ELSE LeafSearch(leaf, key, left, mid - 1)
    ELSE NotFound

\* BTree::find (line 598-630)
find(key) ==
    IF root = NULL THEN end
    ELSE LET leaf == Node_find(root, key)
             mid == LeafSearch(leaf, key, 0, get_size(leaf) - 1)
         IN  IF mid # NotFound
             THEN the_iterator(leaf, get_start_iterator(leaf) + mid, get_last_iterator(leaf))
             ELSE end

\* ------------------------------------------------- find_range, equal_range
\* while (it != end && (*it).first() < key) ++it;   (line 679, 687, 717)
RECURSIVE SkipLess(_, _)
SkipLess(it, key) ==
    IF it # end /\ Deref(it)[1] < key THEN SkipLess(IterNext(it), key) ELSE it

\* while (it != end && (*it).first() == key) ++it;   (line 721)
RECURSIVE SkipEqual(_, _)
SkipEqual(it, key) ==
    IF it # end /\ Deref(it)[1] = key THEN SkipEqual(IterNext(it), key) ELSE it

\* the cursor at the first entry of the leaf a descent ends in (line 674-677, 682-685)
LeafStart(leaf) == the_iterator(leaf, get_start_iterator(leaf), get_last_iterator(leaf))

\* a find_range that leaves its end cursor at the start of the leaf of hi
find_range_NoRightSkip(lo, hi) ==
    IF root = NULL THEN <<end, end>>
    ELSE <<SkipLess(LeafStart(Node_find(root, lo)), lo), LeafStart(Node_find(root, hi))>>

\* BTree::find_range (line 664-691): the pair (begin_, end_) of the range
find_range(lo, hi) ==
    IF root = NULL THEN <<end, end>>
    ELSE LET left_leaf == Node_find(root, lo)
             right_leaf == Node_find(root, hi)
         IN  <<SkipLess(LeafStart(left_leaf), lo), SkipLess(LeafStart(right_leaf), hi)>>

\* an equal_range that starts from the cursor of find instead of scanning from begin()
equal_range_FromFind(key) == <<find(key), SkipEqual(find(key), key)>>

\* BTree::equal_range (line 711-726)
equal_range(key) ==
    LET left == SkipLess(begin, key)
    IN  <<left, SkipEqual(left, key)>>

\* the_range::empty (line 380)
empty(r) == r[1] = r[2]

\* ------------------------------------------------------------ the queries
\* The queries read the tree and leave it as it is, so the caller makes each
\* one with no cursor or range of an earlier one at hand (Discard drops them).

\* it = tree.begin()
Begin ==
    /\ pc = "ready"
    /\ res.op = "none"
    /\ res' = Query("iter", 0, 0, begin, end, 0)
    /\ UNCHANGED <<config, released, heap, pc, build, tree>>

\* ++it on the cursor of the walk: the pointer moves on by one entry, or, where
\* the increment is undefined, to any offset
Advance ==
    /\ pc = "ready"
    /\ res.op = "iter"
    /\ root # NULL
    /\ res.steps < size_ + MaxOver
    /\ \/ res' = Query("iter", 0, 0, IterInc(res.b, res.b.cur + 1), end, res.steps + 1)
       \/ /\ PastArray(res.b)
          /\ \E c \in AnyOffset :
                res' = Query("iter", 0, 0, IterInc(res.b, c), end, res.steps + 1)
    /\ UNCHANGED <<config, released, heap, pc, build, tree>>

\* tree.find(key)
Find ==
    /\ pc = "ready"
    /\ res.op = "none"
    /\ \E key \in QueryKeys :
          res' = Query("find", key, 0, find(key), end, 0)
    /\ UNCHANGED <<config, released, heap, pc, build, tree>>

\* tree.find_range(lo, hi)
FindRange ==
    /\ pc = "ready"
    /\ res.op = "none"
    /\ \E lo \in QueryKeys, hi \in QueryKeys :
          res' = Query("find_range", lo, hi, find_range(lo, hi)[1], find_range(lo, hi)[2], 0)
    /\ UNCHANGED <<config, released, heap, pc, build, tree>>

\* tree.equal_range(key)
EqualRange ==
    /\ pc = "ready"
    /\ res.op = "none"
    /\ \E key \in QueryKeys :
          res' = Query("equal_range", key, 0, equal_range(key)[1], equal_range(key)[2], 0)
    /\ UNCHANGED <<config, released, heap, pc, build, tree>>

\* the cursor or range of the last query goes out of scope
Discard ==
    /\ pc = "ready"
    /\ res.op # "none"
    /\ res' = NoQuery
    /\ UNCHANGED <<config, released, heap, pc, build, tree>>

\* --------------------------------------------------------------- teardown
\* BTree::~BTree (line 404): the body is empty and root is a raw pointer, so no
\* node is handed to delete; Leaf::~Leaf and INode::~INode never run
Destroy ==
    /\ pc = "ready"
    /\ res.op = "none"
    /\ pc' = "destroyed"
    /\ released' = released
    /\ UNCHANGED <<config, heap, build, tree, res>>

\* ------------------------------------------------ append on a full node
capacity(n) == IF heap[n].kind = "Leaf" THEN NUM_KEYS_PER_LEAF ELSE NUM_KEYS_PER_INODE

\* the entry the caller appends: a key above every key of the node
ExtraEntry == <<MaxKey + 1, NULL>>

\* append_child on a full node (line 142-143, 226-227): children[size] lies past
\* the array, so the store is undefined.  It lands behind the array, where the
\* node keeps its size field, and ++size follows: the entry is kept past the
\* capacity, or the size field is left with some other count.
Overrun(n) ==
    {Append(heap[n].children, ExtraEntry)}
        \cup {SubSeq(heap[n].children, 1, k) : k \in 0..capacity(n)}

\* a caller appends to a node of the returned tree that is_full
AppendOnFull ==
    /\ pc = "ready"
    /\ res.op = "none"
    /\ \E n \in 1..Len(heap) :
          /\ is_full(n)
          /\ \E c \in Overrun(n) : heap' = [heap EXCEPT ![n].children = c]
          /\ res' = Query("append", n, ExtraEntry[1], NullIt, NullIt, 0)
    /\ pc' = "appended"
    /\ UNCHANGED <<config, released, build, tree>>

\* ------------------------------------------- instantiating the tree type
\* line 87, 89: the two capacities are computed from the template arguments
ComputeCapacities ==
    /\ cfg.stage = "declared"
    /\ NUM_KEYS_PER_LEAF' = compute_num_keys_per_leaf(cfg)
    /\ NUM_KEYS_PER_INODE' = compute_num_keys_per_inode(cfg)
    /\ cfg' = [cfg EXCEPT !.stage = "capacities"]
    /\ UNCHANGED <<input, heap, pc, build, tree, res, released>>

\* line 117-204: struct Leaf is laid out and its static_assert evaluated
InstantiateLeaf ==
    /\ cfg.stage = "capacities"
    /\ cfg' = [cfg EXCEPT !.stage =
                 IF /\ ValidAlignment(cfg.NodeAlignmentInBytes)
                    /\ ~ArrayTooLarge(NUM_KEYS_PER_LEAF, sizeof_ref_pair(cfg.Key, cfg.Value))
                    /\ sizeof_Leaf(cfg, NUM_KEYS_PER_LEAF) <= cfg.NodeSizeInBytes
                 THEN "leaf" ELSE "rejected"]
    /\ UNCHANGED <<NUM_KEYS_PER_LEAF, NUM_KEYS_PER_INODE, input, heap, pc, build, tree, res, released>>

\* line 207-295: struct INode is laid out and its static_assert evaluated
InstantiateINode ==
    /\ cfg.stage = "leaf"
    /\ cfg' = [cfg EXCEPT !.stage =
                 IF /\ ~ArrayTooLarge(NUM_KEYS_PER_INODE, sizeof_ref_pair(cfg.Key, T_pointer))
                    /\ sizeof_INode(cfg, NUM_KEYS_PER_INODE) <= cfg.NodeSizeInBytes
                 THEN "accepted" ELSE "rejected"]
    /\ UNCHANGED <<NUM_KEYS_PER_LEAF, NUM_KEYS_PER_INODE, input, heap, pc, build, tree, res, released>>

InitConfig ==
    /\ cfg \in Configurations
    /\ NUM_KEYS_PER_LEAF = 0
    /\ NUM_KEYS_PER_INODE = 0
    /\ input = <<>>
    /\ heap = <<>>
    /\ pc = "type"
    /\ pair_it = 0
    /\ child = NULL
    /\ parent = NULL
    /\ maxi = KeyMin
    /\ children = <<>>
    /\ parents = <<>>
    /\ size = 0
    /\ passes = 0
    /\ root = NULL
    /\ size_ = 0
    /\ height_ = 0
    /\ res = NoQuery
    /\ released = <<>>

NextConfig == ComputeCapacities \/ InstantiateLeaf \/ InstantiateINode

SpecConfig == InitConfig /\ [][NextConfig]_vars

Next ==
    \/ ReturnEmpty \/ Start \/ NewLeaf \/ AppendPair \/ PushLeaf \/ LeavesDone
    \/ BeginPass \/ NewINode \/ AppendChild \/ PushParent \/ EndPass \/ ReturnTree
    \/ Begin \/ Advance \/ Find \/ FindRange \/ EqualRange \/ Discard
    \/ Destroy \/ AppendOnFull

Spec == Init /\ [][Next]_vars

TypeOK ==
    /\ pc \in {"entry", "leaf_loop", "leaf_fill", "level_loop", "inner_loop", "inner_fill", "ready",
              "destroyed", "appended"}
    /\ size \in 0..MaxN
    /\ passes \in 0..MaxPasses

\* ------------------------------------------------ the shape of the tree
\* the leaves below node n, left to right through the INode entries from entry i on
RECURSIVE LeavesFrom(_, _)
LeavesFrom(n, i) ==
    IF heap[n].kind = "Leaf" THEN <<n>>
    ELSE IF i > get_size(n) THEN <<>>
    ELSE LeavesFrom(heap[n].children[i][2], 1) \o LeavesFrom(n, i + 1)

TreeLeaves == IF root = NULL THEN <<>> ELSE LeavesFrom(root, 1)

\* the number of INodes on each path from n down to a leaf
RECURSIVE LeafDepths(_)
LeafDepths(n) ==
    IF heap[n].kind = "Leaf" THEN {0}
    ELSE UNION {{d + 1 : d \in LeafDepths(heap[n].children[i][2])} : i \in 1..get_size(n)}

RECURSIVE SumSizes(_)
SumSizes(leaves) ==
    IF leaves = <<>> THEN 0 ELSE get_size(Head(leaves)) + SumSizes(Tail(leaves))

\* the cursor stands on an occupied entry of its leaf
OnEntry(it) == it.leaf # NULL /\ it.cur >= 0 /\ it.cur < get_size(it.leaf)

\* for (it = b; it != e; ++it) collect *it: whether the loop meets e, and what it saw.
\* The loop has failed once it stands on end() without having met e.
RECURSIVE Collect(_, _, _)
Collect(it, e, fuel) ==
    IF it = e THEN [done |-> TRUE, items |-> <<>>]
    ELSE IF it = end \/ fuel = 0 \/ ~OnEntry(it) THEN [done |-> FALSE, items |-> <<>>]
    ELSE LET rest == Collect(IterNext(it), e, fuel - 1)
         IN  [done |-> rest.done, items |-> <<Deref(it)>> \o rest.items]

RangeItems(b, e) == Collect(b, e, Len(input) + 1)

\* the input pairs with lo <= key < hi, in input order
InputBetween(lo, hi) ==
    LET In(p) == lo <= p[1] /\ p[1] < hi IN SelectSeq(input, In)

\* the input pairs with the given key, in input order
InputEqual(key) ==
    LET Eq(p) == p[1] = key IN SelectSeq(input, Eq)

Occurs(key) == \E i \in 1..Len(input) : input[i][1] = key

\* the leaves that hold the given key
LeavesWith(key) ==
    {i \in 1..Len(heap) : heap[i].kind = "Leaf"
                           /\ \E j \in 1..get_size(i) : heap[i].children[j][1] = key}

\* ---------------------------------------------------------------- claims

\* C1: in a tree returned by Bulkload (leaf capacity >= 1, inner capacity >= 2,
\* sorted input, duplicates allowed) a cursor advanced from begin() equals end()
\* after exactly size() steps and not earlier, and after k < size() steps it
\* stands on the (k+1)-th input pair, key and value.
C1_IterationYieldsInput ==
    (pc = "ready" /\ res.op = "iter" /\ NUM_KEYS_PER_INODE >= 2 /\ res.steps <= size_)
        => /\ (res.b = end) <=> (res.steps = size_)
           /\ res.steps < size_ => OnEntry(res.b) /\ Deref(res.b) = input[res.steps + 1]

\* C1 witness: a full walk over a tree of height >= 2 whose input starts with a duplicate
C1_Witness ==
    /\ pc = "ready" /\ res.op = "iter" /\ NUM_KEYS_PER_INODE >= 2
    /\ height_ >= 2 /\ size_ = MaxN /\ res.steps = size_ /\ res.b = end
    /\ input[1][1] = input[2][1]

\* C2: size() of the returned tree is the number of input pairs and the sum of
\* the occupied counts of its leaves; for the empty input size() = 0 and
\* begin() = end().
C2_SizeIsInputLength ==
    pc = "ready"
        => /\ size_ = Len(input)
           /\ SumSizes(TreeLeaves) = size_
           /\ input = <<>> => size_ = 0 /\ begin = end

\* C2 witness: a returned tree of several leaves holding the longest input
C2_Witness == pc = "ready" /\ Len(input) = MaxN /\ Len(TreeLeaves) >= 3

\* C3: find(k) returns a cursor other than end() standing on a pair with key k
\* exactly when k occurs in the input; otherwise it returns end().
C3_FindCorrect ==
    (pc = "ready" /\ res.op = "find")
        => IF Occurs(res.k1)
           THEN res.b # end /\ OnEntry(res.b) /\ Deref(res.b)[1] = res.k1
           ELSE res.b = end

\* C3 witness: a key found in a tree of height >= 2 where it lies in several leaves
C3_Witness ==
    /\ pc = "ready" /\ res.op = "find" /\ res.b # end
    /\ height_ >= 2 /\ Cardinality(LeavesWith(res.k1)) >= 2

\* C4: for lo <= hi, iterating the range of find_range(lo, hi) from its begin
\* cursor meets its end cursor and yields exactly the input pairs with
\* lo <= key < hi, in input order, each once.
C4_FindRangeCorrect ==
    (pc = "ready" /\ res.op = "find_range" /\ res.k1 <= res.k2)
        => /\ RangeItems(res.b, res.e).done
           /\ RangeItems(res.b, res.e).items = InputBetween(res.k1, res.k2)

\* C4 witness: a range of three or more pairs that starts and ends in different leaves
C4_Witness ==
    /\ pc = "ready" /\ res.op = "find_range" /\ res.k1 < res.k2
    /\ height_ >= 1 /\ res.b.leaf # res.e.leaf /\ res.e # end
    /\ Len(InputBetween(res.k1, res.k2)) >= 3

\* C5: equal_range(k) yields every input pair with key k, in input order, and
\* nothing else, also when the run spans several leaves; it is empty when k
\* does not occur or the tree is empty.
C5_EqualRangeCorrect ==
    (pc = "ready" /\ res.op = "equal_range")
        => /\ RangeItems(res.b, res.e).done
           /\ RangeItems(res.b, res.e).items = InputEqual(res.k1)
           /\ ~Occurs(res.k1) => empty(<<res.b, res.e>>)

\* C5 witness: a run of a duplicated key that spans several leaves
C5_Witness ==
    /\ pc = "ready" /\ res.op = "equal_range"
    /\ Cardinality(LeavesWith(res.k1)) >= 2 /\ Len(InputEqual(res.k1)) >= 3
    /\ res.b # begin /\ res.e # end

\* C6: find_range(lo, hi) returns an empty range (begin cursor = end cursor)
\* whenever lo >= hi, whenever the tree is empty and whenever lo is greater
\* than every key.
C6_EmptyRange ==
    (pc = "ready" /\ res.op = "find_range"
       /\ (res.k1 >= res.k2 \/ root = NULL \/ \A i \in 1..Len(input) : input[i][1] < res.k1))
        => empty(<<res.b, res.e>>)

\* C7: when find(key) finds the key, the cursor it returns stands on the first
\* entry with that key of the leaf the descent reached.
C7_FindFirstInLeaf ==
    (pc = "ready" /\ res.op = "find" /\ res.b # end)
        => \A j \in 1..res.b.cur : heap[res.b.leaf].children[j][1] # res.k1

\* C8: in a non-empty tree a cursor that has reached end() stays equal to
\* end() under any number of further ++ operations.
C8_EndIsAbsorbing ==
    (pc = "ready" /\ res.op = "iter" /\ root # NULL /\ res.steps >= size_)
        => res.b = end

\* C9: Bulkload terminates for every capacity >= 1.  The loop of line 475 is
\* left only on a level of one node and a pass decides the next level's width
\* from the current one alone, so it terminates exactly when every pass ends
\* with fewer nodes than it consumed.
C9_EveryPassShrinksLevel ==
    (pc = "inner_loop" /\ Len(children) = 0)
        => Len(parents) < SumSizes([i \in 1..Len(parents) |-> parents[i][2]])

\* C10: every path from the root of a returned tree to a leaf passes through
\* exactly height() INodes; height() is 0 for the empty tree and for a Leaf
\* root, and it is the number of Inner-building passes Bulkload made.
C10_HeightIsLeafDepth ==
    pc = "ready"
        => /\ root # NULL => LeafDepths(root) = {height_}
           /\ (root = NULL \/ heap[root].kind = "Leaf") => height_ = 0
           /\ height_ = passes

\* C10 witness: a returned tree with two or more INode levels and a partly filled last INode
C10_Witness ==
    /\ pc = "ready" /\ height_ >= 2
    /\ get_size(root) < NUM_KEYS_PER_INODE

\* ------------------------------------------------------------ arithmetic
RECURSIVE Pow(_, _)
Pow(b, e) == IF e = 0 THEN 1 ELSE b * Pow(b, e - 1)

CeilDiv(n, d) == (n + d - 1) \div d

\* the least h >= 0 with ceil(n / NUM_KEYS_PER_LEAF) <= NUM_KEYS_PER_INODE ^ h
LeastHeight(n) ==
    LET Fits(h) == CeilDiv(n, NUM_KEYS_PER_LEAF) <= Pow(NUM_KEYS_PER_INODE, h)
    IN  CHOOSE h \in 0..n : Fits(h) /\ \A g \in 0..(h - 1) : ~Fits(g)

\* C11: for leaf capacity L >= 1 and inner capacity I >= 2 the height of the
\* tree loaded from n pairs is the least h with ceil(n / L) <= I^h, so no
\* shorter input gives a higher tree; for L = 2, I = 2, n = 5 it is 2.
C11_HeightIsMinimal ==
    (pc = "ready" /\ NUM_KEYS_PER_LEAF >= 1 /\ NUM_KEYS_PER_INODE >= 2)
        => /\ height_ = LeastHeight(Len(input))
           /\ \A m \in 0..Len(input) : LeastHeight(m) <= height_
           /\ (NUM_KEYS_PER_LEAF = 2 /\ NUM_KEYS_PER_INODE = 2 /\ Len(input) = 5)
                 => height_ = 2

\* C11 witness: the tree of five pairs with two entries per Leaf and per INode
C11_Witness ==
    /\ pc = "ready" /\ NUM_KEYS_PER_LEAF = 2 /\ NUM_KEYS_PER_INODE = 2
    /\ Len(input) = 5 /\ height_ = 2 /\ size_ = 5

\* C12: a tree type whose NodeSizeInBytes cannot hold the fixed overhead and
\* one entry (the subtraction of the overhead may wrap around) is rejected
\* when it is instantiated: no accepted tree type has a Leaf or an INode of
\* capacity zero.
C12_ZeroCapacityRejected ==
    cfg.stage = "accepted" => NUM_KEYS_PER_LEAF >= 1 /\ NUM_KEYS_PER_INODE >= 1

\* how often node n was handed to delete
TimesReleased(n) == Cardinality({i \in 1..Len(released) : released[i] = n})

\* the entries of the given leaves, in order
RECURSIVE EntriesOf(_)
EntriesOf(leaves) ==
    IF leaves = <<>> THEN <<>> ELSE heap[Head(leaves)].children \o EntriesOf(Tail(leaves))

\* C13: destroying a tree releases every Leaf and INode of its graph exactly
\* once (none is left unreleased, none is released twice).
C13_TeardownReleasesAll ==
    pc = "destroyed" => \A n \in 1..Len(heap) : TimesReleased(n) = 1

\* C14: append on a node that is already full fails and leaves the node as it
\* was: its size is still its capacity, nothing lies past the capacity, and
\* the entries of the leaves are still the input.
C14_AppendOnFullRefused ==
    pc = "appended"
        => /\ get_size(res.k1) = capacity(res.k1)
           /\ EntriesOf(TreeLeaves) = input

\* ------------------------------------------------ the levels of the tree
\* the nodes an INode refers to, left to right
ChildrenOf(n) == [i \in 1..get_size(n) |-> heap[n].children[i][2]]

RECURSIVE Below(_)
Below(nodes) ==
    IF nodes = <<>> THEN <<>> ELSE ChildrenOf(Head(nodes)) \o Below(Tail(nodes))

\* the nodes d levels below the root, left to right
RECURSIVE LevelAt(_)
LevelAt(d) == IF d = 0 THEN <<root>> ELSE Below(LevelAt(d - 1))

\* C15: every Leaf of a returned tree holds 1..NUM_KEYS_PER_LEAF entries and
\* every INode 1..NUM_KEYS_PER_INODE, every node of a level but the last is
\* filled to its capacity, and Bulkload never appends to a full node: at no
\* point of the build does a node hold more entries than its capacity.
C15_NodesFilledWithinCapacity ==
    /\ pc # "appended" => \A n \in 1..Len(heap) : get_size(n) <= capacity(n)
    /\ (pc = "ready" /\ root # NULL)
          => \A d \in 0..height_ :
                LET level == LevelAt(d)
                IN  \A i \in 1..Len(level) :
                       /\ get_size(level[i]) >= 1
                       /\ get_size(level[i]) <= capacity(level[i])
                       /\ i < Len(level) => get_size(level[i]) = capacity(level[i])

\* C15 witness: a returned tree of two INode levels whose last leaf and whose
\* last INode below the root are partly filled, next to full ones
C15_Witness ==
    /\ pc = "ready" /\ height_ >= 2
    /\ Len(LevelAt(1)) >= 2
    /\ get_size(LevelAt(1)[Len(LevelAt(1))]) < NUM_KEYS_PER_INODE
    /\ get_size(get_last_leaf(root)) < NUM_KEYS_PER_LEAF
    /\ get_size(get_first_leaf(root)) = NUM_KEYS_PER_LEAF

\* the largest key among the entries of the given leaves
RECURSIVE MaxKeyOf(_)
MaxKeyOf(entries) ==
    IF entries = <<>> THEN KeyMin
    ELSE LET rest == MaxKeyOf(Tail(entries))
         IN  IF Head(entries)[1] >= rest THEN Head(entries)[1] ELSE rest

\* the key of the last entry of the last leaf below n
LastKeyBelow(n) ==
    LET leaf == get_last_leaf(n) IN heap[leaf].children[get_size(leaf)][1]

\* the INodes of the returned tree
TreeINodes ==
    IF root = NULL THEN {}
    ELSE {LevelAt(d)[i] : <<d, i>> \in {<<d, i>> \in (0..height_) \X (1..Len(heap)) :
                                           d < height_ /\ i <= Len(LevelAt(d))}}

\* C16: in a returned tree the key of every INode entry is the largest key of
\* the subtree of the entry's child, which is the key of the last entry of the
\* child's last leaf, and the keys of the entries of an INode ascend (equal
\* keys of duplicates side by side).
C16_SeparatorIsSubtreeMax ==
    pc = "ready"
        => \A n \in TreeINodes :
              /\ \A i \in 1..get_size(n) :
                    LET entry == heap[n].children[i]
                    IN  /\ entry[1] = MaxKeyOf(EntriesOf(LeavesFrom(entry[2], 1)))
                        /\ entry[1] = LastKeyBelow(entry[2])
              /\ \A i \in 1..(get_size(n) - 1) :
                    heap[n].children[i][1] <= heap[n].children[i + 1][1]

\* C16 witness: a returned tree of two INode levels whose root has entries of
\* different keys
C16_Witness ==
    /\ pc = "ready" /\ height_ >= 2
    /\ get_size(root) >= 2
    /\ heap[root].children[1][1] < heap[root].children[2][1]

\* the leaves met by following next_leaf from n, at most fuel of them
RECURSIVE ChainFrom(_, _)
ChainFrom(n, fuel) ==
    IF n = NULL \/ fuel = 0 THEN <<>>
    ELSE <<n>> \o ChainFrom(get_next_leaf(n), fuel - 1)

\* the next_leaf chain of the returned tree is its leaves, left to right
ChainIsLeafOrder ==
    (pc = "ready" /\ root # NULL)
        => /\ ChainFrom(get_first_leaf(root), Len(heap) + 1) = TreeLeaves
           /\ \A i, j \in 1..Len(TreeLeaves) : TreeLeaves[i] = TreeLeaves[j] => i = j
           /\ TreeLeaves[Len(TreeLeaves)] = get_last_leaf(root)
           /\ get_next_leaf(get_last_leaf(root)) = NULL

\* a step leaves every next_leaf that is set as it is
LinkSetOnce ==
    \A n \in 1..Len(heap) : get_next_leaf(n) # NULL => heap'[n].next_leaf = get_next_leaf(n)

\* C17: following next_leaf from the leftmost leaf of a returned non-empty
\* tree visits every leaf once, in the left-to-right order of the INodes, and
\* ends at the rightmost leaf, whose next_leaf is null; no step of the build
\* changes a next_leaf that is already set.
C17_LeafChain == []ChainIsLeafOrder /\ [][LinkSetOnce]_vars

\* C17 witness: a returned tree of two INode levels with four or more leaves
C17_Witness ==
    /\ pc = "ready" /\ height_ >= 2 /\ Len(TreeLeaves) >= 4
    /\ get_next_leaf(get_first_leaf(root)) = TreeLeaves[2]

====
